---- MODULE Spec2Model ----
(***************************************************************************)
(* KSI ingest: the parser (src/parse_kssi.py), the persistence functions   *)
(* (src/load.py), the fetcher (src/fetch.py) and the run (src/run_ingest). *)
(*                                                                         *)
(* A text (a Python str the parser handles) is a sequence of tokens, the   *)
(* tokens standing for the words of the text separated by single spaces.   *)
(* The token "" stands for nothing between two spaces (what removing a     *)
(* score from the middle of a text leaves) and " " for a blank.  Python's  *)
(* None is the string "None" where a str is expected, and <<>> where an    *)
(* int or a text is expected (<<v>> is then the value v).                  *)
(***************************************************************************)
EXTENDS Naturals, Sequences, FiniteSets

VARIABLES
  pc,       \* where the run (main) or the called function stands
  today,    \* the calendar day of the clock dateutil reads its default from
  index,    \* the index page of the season: its anchors, in document order
  pages,    \* motnumer -> the competition page: its table rows
  store,    \* the committed contents of the database
  tx,       \* the contents the open transaction of the connection sees
  comps,    \* main: the competitions parsed from the index, as a sequence
  motnums,  \* main: the competition keys to ingest, in order
  i,        \* main: position in motnums of the loop in progress
  matches,  \* main: the matches parsed from the current competition page
  j,        \* main: position in matches
  tries,    \* get: failed attempts of the fetch in progress
  err,      \* the exception that ended the run ("None" when none did)
  pre,      \* history: the store when the run started
  wrote,    \* history: statements the run executed in its transaction
  prev,     \* history: the inputs of the latest committed run
  arg,      \* the arguments of the function call under study
  ret       \* its result

vars == <<pc, today, index, pages, store, tx, comps, motnums, i, matches, j,
          tries, err, pre, wrote, prev, arg, ret>>

None == "None"

(***************************************************************************)
(* Vocabulary of the modelled pages.                                       *)
(***************************************************************************)
TimeToks == {"19:15"}
DateToks == {"7.5.2025", "07.05.2025"}
NumToks == {"3", "12"}
ScoreToks == {"2-1"}
\* words that contain one of the header fragments ("dagset" here)
HeaderToks == {"Dagsetning"}
BlankToks == {"", " "}

\* TIME_RE = \b\d{1,2}:\d{2}\b
TIME_RE(tok) == tok \in TimeToks

\* DATE_RE = \b\d{1,2}\.\s*\d{1,2}\.\s*\d{4}\b | ...
DATE_RE(tok) == tok \in DateToks

\* SCORE_RE = \b(\d+)\s*[-]\s*(\d+)\b
SCORE_RE(tok) == tok \in ScoreToks

\* the two groups of SCORE_RE, as int() reads them
ScoreGroups(tok) == IF tok = "2-1" THEN <<2, 1>> ELSE <<0, 0>>

\* str.lower() of one token
LowerTok(tok) ==
  CASE tok = "KR" -> "kr"
    [] tok = "Valur" -> "valur"
    [] tok = "Results" -> "results"
    [] tok = "Dagsetning" -> "dagsetning"
    [] tok = "A" -> "a"
    [] tok = "B" -> "b"
    [] tok = "Bikar" -> "bikar"
    [] tok = "Karla" -> "karla"
    [] OTHER -> tok

Lower(t) == [k \in 1..Len(t) |-> LowerTok(t[k])]

RECURSIVE TrimLeft(_)
TrimLeft(t) ==
  IF t = <<>> THEN <<>>
  ELSE IF Head(t) \in BlankToks THEN TrimLeft(Tail(t)) ELSE t

RECURSIVE TrimRight(_)
TrimRight(t) ==
  IF t = <<>> THEN <<>>
  ELSE IF t[Len(t)] \in BlankToks THEN TrimRight(SubSeq(t, 1, Len(t) - 1)) ELSE t

\* str.strip()
Strip(t) == TrimRight(TrimLeft(t))

\* the text as the str it stands for
RECURSIVE Join(_)
Join(t) ==
  IF t = <<>> THEN ""
  ELSE IF Len(t) = 1 THEN t[1]
  ELSE t[1] \o " " \o Join(Tail(t))

\* len() of the text
CharLen(t) == Len(Join(t))

\* str.split(): the words of the text
Split(t) == SelectSeq(t, LAMBDA tok : tok \notin BlankToks)

Map(F(_), s) == [k \in 1..Len(s) |-> F(s[k])]

\* the ISO form of a date token, day first
IsoDate(tok) ==
  CASE tok = "7.5.2025" -> "2025-05-07"
    [] tok = "07.05.2025" -> "2025-05-07"
    [] OTHER -> tok

(***************************************************************************)
(* parse_kssi.py                                                           *)
(***************************************************************************)

\* hashlib.sha1(raw).hexdigest(), taken to be collision-free on raw
sha1(raw) == "sha1(" \o raw \o ")"

stable_match_id_away_dropped(motnumer, kickoff_iso, home, away) ==
  sha1(motnumer \o "|" \o kickoff_iso \o "|" \o Join(Lower(Strip(home))))

stable_match_id(motnumer, kickoff_iso, home, away) ==
  sha1(motnumer \o "|" \o kickoff_iso \o "|" \o Join(Lower(Strip(home)))
         \o "|" \o Join(Lower(Strip(away))))

\* dateutil's parse(t, dayfirst=True, fuzzy=True): words are skipped, a
\* missing date is today's, a missing time is midnight; more than three
\* year/month/day numbers, or no date and no time at all, is an error,
\* which try_parse_kickoff turns into None.
try_parse_kickoff(text, day) ==
  LET t == Strip(text)
      dates == SelectSeq(t, DATE_RE)
      times == SelectSeq(t, TIME_RE)
      nums == SelectSeq(t, LAMBDA tok : tok \in NumToks)
  IN IF t = <<>> THEN None
     ELSE IF Len(dates) = 0 /\ Len(times) = 0 THEN None
     ELSE IF Len(dates) > 1 \/ Len(times) > 1 \/ Len(nums) > 0 THEN None
     ELSE (IF Len(dates) = 1 THEN IsoDate(dates[1]) ELSE day)
            \o "T"
            \o (IF Len(times) = 1 THEN times[1] ELSE "00:00")
            \o ":00Z"

strip_score(text) ==
  Strip([k \in 1..Len(text) |-> IF SCORE_RE(text[k]) THEN "" ELSE text[k]])

looks_like_datetime(text) ==
  \E k \in 1..Len(text) : TIME_RE(text[k]) \/ DATE_RE(text[k])

\* <<kickoff text or <<>> for None, remainder>>
split_front_datetime(text, day) ==
  LET t == Strip(text)
      parts == Split(t)
      hits == {k \in 1..Len(parts) : TIME_RE(parts[k])}
  IN IF t = <<>> THEN <<<<>>, t>>
     ELSE IF hits = {} THEN <<<<>>, t>>
     ELSE LET time_idx == CHOOSE k \in hits : \A h \in hits : k <= h
              kickoff_chunk == SubSeq(parts, 1, time_idx)
              remainder == SubSeq(parts, time_idx + 1, Len(parts))
          IN IF try_parse_kickoff(kickoff_chunk, day) # None
             THEN <<kickoff_chunk, remainder>>
             ELSE <<<<>>, t>>

\* MATCH_RE = match/(\d+), searched in an href: group 1, or None
MATCH_RE(href) ==
  CASE href = "/match/123" -> "123"
    [] href = "/match/124" -> "124"
    [] OTHER -> None

\* the words the header check looks for inside the joined cells
header_ish(texts) ==
  \E c \in 1..Len(texts) : \E k \in 1..Len(texts[c]) : texts[c][k] \in HeaderToks

\* " | ".join(texts), without the separators (no pattern matches across one)
RECURSIVE joined(_)
joined(texts) == IF texts = <<>> THEN <<>> ELSE Head(texts) \o joined(Tail(texts))

\* SCORE_RE.search(joined): the groups of the first score of the row, <<>> when none
first_score(texts) ==
  LET hits == SelectSeq(joined(texts), SCORE_RE)
  IN IF hits = <<>> THEN <<>> ELSE ScoreGroups(hits[1])

\* the kickoff scan: the first date/time-ish cell that parses
scan_kickoff(texts, day) ==
  LET ok == {c \in 1..Len(texts) :
               looks_like_datetime(texts[c]) /\ try_parse_kickoff(texts[c], day) # None}
  IN IF ok = {} THEN None
     ELSE try_parse_kickoff(texts[CHOOSE c \in ok : \A d \in ok : c <= d], day)

all_digits(text) == Len(text) = 1 /\ text[1] \in NumToks

\* the first loop over the cells: no date/time cells, no numbers
team_cell(t) ==
  /\ t # <<>>
  /\ ~looks_like_datetime(t)
  /\ CharLen(strip_score(t)) >= 2
  /\ ~all_digits(strip_score(t))

\* the second loop, run when the first found fewer than two
fallback_cell(t) == t # <<>> /\ CharLen(strip_score(t)) >= 2

teamish_cells(texts) ==
  LET first == Map(strip_score, SelectSeq(texts, team_cell))
  IN IF Len(first) < 2
     THEN first \o Map(strip_score, SelectSeq(texts, fallback_cell))
     ELSE first

\* next((x.strip() for x in teamish[1:] if x.strip() and x.strip() != home), None)
pick_away(teamish, home) ==
  LET rest == SelectSeq(Tail(teamish),
                        LAMBDA x : Strip(x) # <<>> /\ Strip(x) # home)
  IN IF rest = <<>> THEN <<>> ELSE Strip(rest[1])

\* tr.find("a", href=True): the first link of the row only
first_link(links) == IF links = <<>> THEN <<>> ELSE <<links[1]>>

any_native_link(links) ==
  LET hits == SelectSeq(links, LAMBDA h : MATCH_RE(h) # None)
  IN IF hits = <<>> THEN <<>> ELSE <<hits[1]>>

\* the body of the loop over the rows: <<>> when the row is skipped, else
\* the one record appended to matches
row_match(tr, motnumer, source_url, day) ==
  LET texts == tr.cells
      score == first_score(texts)
      kick0 == scan_kickoff(texts, day)
      teamish == teamish_cells(texts)
  IN IF Len(texts) < 3 THEN <<>>
     ELSE IF header_ish(texts) THEN <<>>
     ELSE IF Len(teamish) < 2 THEN <<>>
     ELSE
       LET home0 == Strip(teamish[1])
           away0 == pick_away(teamish, home0)
           sh == split_front_datetime(home0, day)
           kick1 == IF kick0 = None /\ sh[1] # <<>>
                    THEN try_parse_kickoff(sh[1], day) ELSE kick0
           home == IF kick0 = None /\ sh[1] # <<>> /\ sh[2] # <<>>
                   THEN sh[2] ELSE home0
           sa == split_front_datetime(away0, day)
           kickoff_utc == IF kick1 = None /\ sa[1] # <<>>
                          THEN try_parse_kickoff(sa[1], day) ELSE kick1
           away == IF kick1 = None /\ sa[1] # <<>> /\ sa[2] # <<>>
                   THEN sa[2] ELSE away0
           a == first_link(tr.links)
           native == IF a = <<>> THEN None ELSE MATCH_RE(a[1])
           match_id == IF native # None THEN native
                       ELSE stable_match_id(motnumer,
                              IF kickoff_utc = None THEN "" ELSE kickoff_utc,
                              home, away)
       IN IF away0 = <<>> THEN <<>>
          ELSE << [match_id |-> match_id,
                   motnumer |-> motnumer,
                   kickoff_utc |-> kickoff_utc,
                   home_team_raw |-> home,
                   away_team_raw |-> away,
                   venue_raw |-> None,
                   status |-> IF score # <<>> THEN "played" ELSE "scheduled",
                   ft_home |-> IF score = <<>> THEN <<>> ELSE <<score[1]>>,
                   ft_away |-> IF score = <<>> THEN <<>> ELSE <<score[2]>>,
                   source_url |-> IF a = <<>> THEN source_url ELSE a[1]] >>

\* dedup[m["match_id"]] = m over the list, then list(dedup.values()): a
\* dict keeps the place of a key's first insertion and its last value
RECURSIVE dedup_keep_first(_)
dedup_keep_first(ms) ==
  IF ms = <<>> THEN <<>>
  ELSE LET m == ms[Len(ms)]
           d == dedup_keep_first(SubSeq(ms, 1, Len(ms) - 1))
       IN IF \E k \in 1..Len(d) : d[k].match_id = m.match_id
          THEN d ELSE Append(d, m)

RECURSIVE dedup(_)
dedup(ms) ==
  IF ms = <<>> THEN <<>>
  ELSE LET m == ms[Len(ms)]
           d == dedup(SubSeq(ms, 1, Len(ms) - 1))
       IN IF \E k \in 1..Len(d) : d[k].match_id = m.match_id
          THEN [k \in 1..Len(d) |-> IF d[k].match_id = m.match_id THEN m ELSE d[k]]
          ELSE Append(d, m)

\* the records of the qualifying rows, in document order
RECURSIVE row_matches(_, _, _, _)
row_matches(rows, motnumer, source_url, day) ==
  IF rows = <<>> THEN <<>>
  ELSE row_match(Head(rows), motnumer, source_url, day)
         \o row_matches(Tail(rows), motnumer, source_url, day)

parse_matches_from_comp_page(html, motnumer, source_url, day) ==
  dedup(row_matches(html, motnumer, source_url, day))

(***************************************************************************)
(* The database (load.py).                                                 *)
(***************************************************************************)
EmptyStore == [competitions |-> {}, matches |-> {}, teams |-> {}, aliases |-> {}]

Days == {"2025-05-07", "2025-05-08"}

\* the run and the database at rest, for the specifications that study one
\* function alone
AtRest ==
  /\ index = <<>> /\ pages = <<>>
  /\ store = EmptyStore /\ tx = EmptyStore /\ pre = EmptyStore
  /\ comps = <<>> /\ motnums = <<>> /\ matches = <<>>
  /\ i = 0 /\ j = 0 /\ tries = 0 /\ wrote = 0
  /\ err = None /\ prev = "none"

AtRestVars == <<index, pages, store, tx, pre, comps, motnums, matches, i, j,
                tries, wrote, err, prev>>

(***************************************************************************)
(* SpecParse: parse_matches_from_comp_page applied to a page.              *)
(***************************************************************************)
MaxRows == 2

KR == <<"KR">>
Valur == <<"Valur">>
DateTime == <<"7.5.2025", "19:15">>

CellRows ==
  { <<KR, Valur, <<>>>>,
    <<DateTime, KR, Valur>>,
    <<DateTime, KR, Valur, <<"2-1">>>>,
    <<<<"07.05.2025", "19:15">>, KR, <<"Valur", "2-1">>>>,
    <<KR, DateTime, <<>>>>,
    <<<<"Results">>, <<>>, <<>>>>,
    <<<<"Dagsetning">>, KR, Valur>>,
    <<<<"19:15">>, KR, Valur>>,
    <<<<"7.5.2025", "19:15", "KR", "3">>, Valur, <<>>>>,
    <<KR, Valur>>,
    <<<<"12">>, KR, <<"3">>>>,
    <<<<"kr">>, Valur, <<>>>>,
    <<KR, KR, <<>>>> }

LinkSeqs == { <<>>, <<"/match/123">>, <<"/lid/5", "/match/123">> }

Rows == {[cells |-> c, links |-> l] : c \in CellRows, l \in LinkSeqs}

RECURSIVE SeqsUpTo(_, _)
SeqsUpTo(S, n) ==
  IF n = 0 THEN {<<>>}
  ELSE LET shorter == SeqsUpTo(S, n - 1)
       IN shorter \cup {Append(s, x) : s \in shorter, x \in S}

competition_url(motnumer) == "https://www.ksi.is/mot/stakt-mot/?motnumer=" \o motnumer

ParseInit ==
  /\ AtRest
  /\ pc = "call"
  /\ today \in Days
  /\ arg \in {[html |-> h, motnumer |-> "101"] : h \in SeqsUpTo(Rows, MaxRows)}
  /\ ret = <<>>

ParseCall ==
  /\ pc = "call"
  /\ pc' = "returned"
  /\ ret' = parse_matches_from_comp_page(arg.html, arg.motnumer,
                                         competition_url(arg.motnumer), today)
  /\ UNCHANGED <<today, arg, AtRestVars>>

SpecParse == ParseInit /\ [][ParseCall]_vars

(***************************************************************************)
(* SpecId: stable_match_id called twice, the second time on the same       *)
(* arguments or on arguments that differ in one field.                     *)
(***************************************************************************)
MaxNameLen == 2

NameAtoms == {"A", "a", " "}
Names == SeqsUpTo(NameAtoms, MaxNameLen)

IdArgs ==
  [motnumer : {"101", "102"}, kickoff_iso : {"", "2025-05-07T19:15:00Z"},
   home : Names, away : Names]

IdFields == {"motnumer", "kickoff_iso", "home", "away"}

\* the fields in which two argument lists differ
Differing(x, y) == {f \in IdFields : x[f] # y[f]}

IdInit ==
  /\ AtRest
  /\ pc = "call"
  /\ today \in {"2025-05-07"}
  /\ arg \in {<<x>> : x \in IdArgs}
  /\ ret = <<>>

IdCall ==
  /\ pc = "call"
  /\ pc' = "returned"
  /\ LET x == arg[Len(ret) + 1]
     IN ret' = Append(ret, stable_match_id(x.motnumer, x.kickoff_iso, x.home, x.away))
  /\ UNCHANGED <<today, arg, AtRestVars>>

IdAgain ==
  /\ pc = "returned"
  /\ Len(arg) = 1
  /\ \E y \in IdArgs :
       /\ Cardinality(Differing(arg[1], y)) <= 1
       /\ arg' = Append(arg, y)
  /\ pc' = "call"
  /\ UNCHANGED <<today, ret, AtRestVars>>

SpecId == IdInit /\ [][IdCall \/ IdAgain]_vars

(***************************************************************************)
(* SpecTier: infer_gender_tier applied to a competition name.              *)
(***************************************************************************)
MaxTitleLen == 3

\* "N." tokens: the digits and the dot of the tier pattern
NumDotToks == {"2.", "3."}
NumDotValue(tok) == IF tok = "2." THEN 2 ELSE 3

infer_gender_tier(name_raw) ==
  LET n == Lower(name_raw)
      gender == IF \E k \in 1..Len(n) : n[k] = "karla" THEN "M"
                ELSE IF \E k \in 1..Len(n) : n[k] = "kvenna" THEN "W"
                ELSE None
      \* re.search(r"\b(\d+)\.\s*deild\b", n)
      hits == {k \in 1..Len(n) :
                 k < Len(n) /\ n[k] \in NumDotToks /\ n[k + 1] = "deild"}
      tier == IF hits = {} THEN <<>>
              ELSE <<NumDotValue(n[CHOOSE k \in hits : \A h \in hits : k <= h])>>
  IN <<gender, tier>>

TitleToks == {"2.", "3.", "deild", "karla", "kvenna", "Bikar"}

TierInit ==
  /\ AtRest
  /\ pc = "call"
  /\ today \in {"2025-05-07"}
  /\ arg \in SeqsUpTo(TitleToks, MaxTitleLen)
  /\ ret = <<>>

TierCall ==
  /\ pc = "call"
  /\ pc' = "returned"
  /\ ret' = infer_gender_tier(arg)
  /\ UNCHANGED <<today, arg, AtRestVars>>

SpecTier == TierInit /\ [][TierCall]_vars

(***************************************************************************)
(* load.py                                                                 *)
(***************************************************************************)

\* db(): the connection is opened with row_factory=dict_row
row_factory == "dict_row"

\* row[0] of the row fetchone() returns: <<>> when the subscript raises
\* KeyError (a dict_row row is a dict keyed by column name)
row_subscript_0(factory, team_id) ==
  IF factory = "tuple_row" THEN <<team_id>> ELSE <<>>

\* the key the teams table gives a new row: one no row holds
new_team_id(teams) ==
  CHOOSE n \in 1..(Cardinality(teams) + 1) : \A t \in teams : t.team_id # n

\* insert into teams ... on conflict (name_canonical) do update ... returning team_id
insert_team(teams, name) ==
  IF \E t \in teams : t.name_canonical = name THEN teams
  ELSE teams \cup {[team_id |-> new_team_id(teams), name_canonical |-> name]}

\* [teams: the table afterwards, raised: the exception or None, team_id]
get_or_create_team(teams, name_canonical) ==
  LET name == Strip(name_canonical)
      after == insert_team(teams, name)
      id == (CHOOSE t \in after : t.name_canonical = name).team_id
      got == row_subscript_0(row_factory, id)
  IN IF name = <<>>
     THEN [teams |-> teams, raised |-> "ValueError", team_id |-> <<>>]
     ELSE IF got = <<>>
     THEN [teams |-> after, raised |-> "KeyError", team_id |-> <<>>]
     ELSE [teams |-> after, raised |-> None, team_id |-> got]

upsert_team_alias(aliases, alias, team_id) ==
  LET a == Strip(alias)
  IN IF a = <<>> THEN aliases
     ELSE {r \in aliases : r.alias # a} \cup {[alias |-> a, team_id |-> team_id]}

\* the row of competitions the statement writes for c
competition_row(c, now) ==
  [motnumer |-> c.motnumer, season |-> c.season, gender |-> c.gender,
   tier |-> c.tier, name_raw |-> c.name_raw, group_label |-> c.group_label,
   source_url |-> c.source_url, updated_at |-> now]

upsert_competition_appending(competitions, c, now) ==
  competitions \cup {competition_row(c, now)}

\* insert into competitions ... on conflict (motnumer) do update set ...
upsert_competition(competitions, c, now) ==
  {r \in competitions : r.motnumer # c.motnumer} \cup {competition_row(c, now)}

\* the row of matches the statement writes for m
match_row(m, motnumer, last_seen_at, updated_at) ==
  [match_id |-> m.match_id, motnumer |-> motnumer, kickoff_utc |-> m.kickoff_utc,
   home_team_raw |-> m.home_team_raw, away_team_raw |-> m.away_team_raw,
   home_team_id |-> m.home_team_id, away_team_id |-> m.away_team_id,
   venue_raw |-> m.venue_raw, status |-> m.status,
   ft_home |-> m.ft_home, ft_away |-> m.ft_away, source_url |-> m.source_url,
   last_seen_at |-> last_seen_at, updated_at |-> updated_at]

\* insert into matches ... on conflict (match_id) do update set ...: every
\* column but match_id and motnumer is overwritten; an inserted row takes
\* last_seen_at and updated_at from the column defaults
upsert_match(ms, m, now) ==
  IF \E r \in ms : r.match_id = m.match_id
  THEN {IF r.match_id = m.match_id THEN match_row(m, r.motnumer, now, now) ELSE r
          : r \in ms}
  ELSE ms \cup {match_row(m, m.motnumer, "default", "default")}

(***************************************************************************)
(* SpecTeams: get_or_create_team called over and over on one connection.   *)
(* arg is the list of the names passed so far, ret the list of outcomes.   *)
(***************************************************************************)
MaxCalls == 3

Spellings ==
  { <<"KR">>, <<"kr">>, <<" ", "KR">>, <<"KR", " ">>, <<"K", "R">>, <<"Valur">>, <<>> }

TeamsInit ==
  /\ AtRest
  /\ pc = "call"
  /\ today \in {"2025-05-07"}
  /\ arg = <<>>
  /\ ret = <<>>

TeamsCall ==
  /\ Len(arg) < MaxCalls
  /\ \E name \in Spellings :
       LET r == get_or_create_team(tx.teams, name)
       IN /\ arg' = Append(arg, name)
          /\ ret' = Append(ret, [raised |-> r.raised, team_id |-> r.team_id])
          /\ tx' = [tx EXCEPT !.teams = r.teams]
  /\ UNCHANGED <<pc, today, index, pages, store, pre, comps, motnums, matches,
                 i, j, tries, wrote, err, prev>>

SpecTeams == TeamsInit /\ [][TeamsCall]_vars

(***************************************************************************)
(* The index page (parse_kssi.py) and the run (run_ingest.py, fetch.py).   *)
(***************************************************************************)
SEASON == 2025

\* get(url, tries=3)
TRIES == 3

\* MOT_RE = motnumer=(\d+), searched in an href: group 1, or None
MOT_RE(href) ==
  CASE href = "/mot/stakt-mot/?motnumer=101" -> "101"
    [] href = "https://www.ksi.is/mot/stakt-mot/?motnumer=102" -> "102"
    [] OTHER -> None

\* href.startswith("http")
startswith_http(href) == href = "https://www.ksi.is/mot/stakt-mot/?motnumer=102"

\* the place of a competition key in sorted() order
MotRank(mot) == IF mot = "101" THEN 1 ELSE 2

RECURSIVE sorted(_)
sorted(S) ==
  IF S = {} THEN <<>>
  ELSE LET least == CHOOSE x \in S : \A y \in S : MotRank(x) <= MotRank(y)
       IN <<least>> \o sorted(S \ {least})

\* the html is the list of its anchors: every motnumer= of the page is in an href
extract_motnumer_links(html) ==
  sorted({MOT_RE(html[k].href) : k \in 1..Len(html)} \ {None})

\* the generic navigation items, lower-cased
NavLabels == {<<"stada", "&", "urslit">>, <<"stada", "og", "urslit">>}

\* re.search(r"\b([A-Z...])\s*ridill\b", name, re.IGNORECASE): the letter, or None
group_letter(name) ==
  LET hits == {k \in 1..Len(name) :
                 /\ k < Len(name) /\ Len(name[k]) = 1 /\ name[k] \notin NumToks
                 /\ LowerTok(name[k + 1]) = "ridill"}
  IN IF hits = {} THEN None ELSE name[CHOOSE k \in hits : \A h \in hits : k <= h]

\* str.upper() of a group letter
UpperTok(tok) == IF tok = "a" THEN "A" ELSE IF tok = "b" THEN "B" ELSE tok

\* the record the loop of parse_competitions_from_index stores for an anchor
index_record(a, year) ==
  LET gt == infer_gender_tier(a.text)
      gm == group_letter(a.text)
  IN [motnumer |-> MOT_RE(a.href),
      season |-> year,
      gender |-> gt[1],
      tier |-> gt[2],
      name_raw |-> a.text,
      group_label |-> IF gm = None THEN <<>> ELSE <<UpperTok(gm), "ridill">>,
      source_url |-> IF startswith_http(a.href) THEN a.href
                     ELSE "https://www.ksi.is" \o a.href]

\* comps[mot] = ...: a dict, as the sequence of its values in key order
dict_set(d, rec) ==
  IF \E k \in 1..Len(d) : d[k].motnumer = rec.motnumer
  THEN [k \in 1..Len(d) |-> IF d[k].motnumer = rec.motnumer THEN rec ELSE d[k]]
  ELSE Append(d, rec)

RECURSIVE parse_competitions_from_index(_, _)
parse_competitions_from_index(html, year) ==
  IF html = <<>> THEN <<>>
  ELSE LET a == html[Len(html)]
           d == parse_competitions_from_index(SubSeq(html, 1, Len(html) - 1), year)
       IN IF MOT_RE(a.href) = None THEN d
          ELSE IF a.text = <<>> THEN d
          ELSE IF Lower(a.text) \in NavLabels THEN d
          ELSE dict_set(d, index_record(a, year))

\* motnums = list(comps.keys()); if not motnums: motnums = extract_motnumer_links(...)
motnums_of(cs, html) ==
  IF cs # <<>> THEN [k \in 1..Len(cs) |-> cs[k].motnumer]
  ELSE extract_motnumer_links(html)

no_motnums_check_dropped(ms) == FALSE

\* if not motnums: raise RuntimeError
no_motnums(ms) == ms = <<>>

\* comps.get(mot) or {...}, then season and source_url set
comp_for(cs, mot) ==
  LET found == SelectSeq(cs, LAMBDA c : c.motnumer = mot)
      comp == IF found # <<>> THEN found[1]
              ELSE [motnumer |-> mot, season |-> SEASON, gender |-> None,
                    tier |-> <<>>, name_raw |-> <<"Unknown", "competition">>,
                    group_label |-> <<>>, source_url |-> competition_url(mot)]
  IN [comp EXCEPT !.season = SEASON, !.source_url = competition_url(mot)]

transaction_exit_autocommit(committed, seen, raised) == seen

\* with conn.transaction(): leaving the block commits what the connection
\* wrote, or rolls it back when an exception leaves it
transaction_exit(committed, seen, raised) ==
  IF raised THEN committed ELSE seen

\* m["home_team_id"] = home_id; m["away_team_id"] = away_id
with_team_ids(m, home_id, away_id) ==
  [match_id |-> m.match_id, motnumer |-> m.motnumer, kickoff_utc |-> m.kickoff_utc,
   home_team_raw |-> m.home_team_raw, away_team_raw |-> m.away_team_raw,
   home_team_id |-> home_id, away_team_id |-> away_id,
   venue_raw |-> m.venue_raw, status |-> m.status,
   ft_home |-> m.ft_home, ft_away |-> m.ft_away, source_url |-> m.source_url]

\* the body of the loop over the matches of a page, on the contents db the
\* transaction sees: [db: the contents afterwards, raised, n: statements run]
ingest_match(db, m, now) ==
  LET h == get_or_create_team(db.teams, m.home_team_raw)
      a == get_or_create_team(h.teams, m.away_team_raw)
      al1 == upsert_team_alias(db.aliases, m.home_team_raw, h.team_id[1])
      al2 == upsert_team_alias(al1, m.away_team_raw, a.team_id[1])
  IN IF h.raised # None
     THEN [db |-> [db EXCEPT !.teams = h.teams], raised |-> h.raised,
           n |-> IF h.raised = "ValueError" THEN 0 ELSE 1]
     ELSE IF a.raised # None
     THEN [db |-> [db EXCEPT !.teams = a.teams], raised |-> a.raised,
           n |-> IF a.raised = "ValueError" THEN 1 ELSE 2]
     ELSE [db |-> [db EXCEPT !.teams = a.teams,
                             !.aliases = al2,
                             !.matches = upsert_match(db.matches,
                                           with_team_ids(m, h.team_id[1], a.team_id[1]),
                                           now)],
           raised |-> None,
           n |-> 5]

Mots == {"101", "102"}

Named101 == [href |-> "/mot/stakt-mot/?motnumer=101", text |-> <<"3.", "deild", "karla">>]
Renamed101 == [href |-> "/mot/stakt-mot/?motnumer=101",
               text |-> <<"3.", "deild", "karla", "A", "ridill">>]
Bare101 == [href |-> "/mot/stakt-mot/?motnumer=101", text |-> <<>>]
Nav101 == [href |-> "/mot/stakt-mot/?motnumer=101", text |-> <<"Stada", "&", "urslit">>]
Named102 == [href |-> "https://www.ksi.is/mot/stakt-mot/?motnumer=102",
             text |-> <<"Bikar", "kvenna">>]
About == [href |-> "/um-ksi/", text |-> <<"KSI">>]

IndexPages ==
  { <<>>,
    <<About>>,
    <<Named101>>,
    <<Bare101, About>>,
    <<Named102, Nav101>>,
    <<Named102, Named101, Renamed101>> }

Fixture == [cells |-> <<KR, Valur, <<>>>>, links |-> <<>>]
Played == [cells |-> <<DateTime, KR, Valur, <<"2-1">>>>, links |-> <<"/match/123">>]

CompPages == { <<>>, <<Fixture>>, <<Played, Fixture>> }

Init ==
  /\ pc = "idle"
  /\ today = "2025-05-07"
  /\ index \in IndexPages
  /\ pages \in [Mots -> CompPages]
  /\ store = EmptyStore /\ tx = EmptyStore /\ pre = EmptyStore
  /\ comps = <<>> /\ motnums = <<>> /\ matches = <<>>
  /\ i = 0 /\ j = 0 /\ tries = 0 /\ wrote = 0
  /\ err = None /\ prev = "none"
  /\ arg = <<>> /\ ret = <<>>

Resting == pc \in {"idle", "done", "failed"}

\* the site publishes another index page, or another page of a competition
EditSite ==
  /\ Resting
  /\ \/ \E ix \in IndexPages \ {index} :
          index' = ix /\ pages' = pages
     \/ \E mot \in Mots : \E pg \in CompPages \ {pages[mot]} :
          pages' = [pages EXCEPT ![mot] = pg] /\ index' = index
  /\ pc' = "idle"
  /\ prev' = "none"
  /\ UNCHANGED <<today, store, tx, comps, motnums, i, matches, j, tries, err,
                 pre, wrote, arg, ret>>

\* midnight passes
Tick ==
  /\ Resting
  /\ today = "2025-05-07"
  /\ today' = "2025-05-08"
  /\ pc' = "idle"
  /\ UNCHANGED <<index, pages, store, tx, comps, motnums, i, matches, j, tries,
                 err, pre, wrote, prev, arg, ret>>

\* main() is called
StartRun ==
  /\ Resting
  /\ pc' = "fetch_index"
  /\ pre' = store
  /\ tx' = store
  /\ comps' = <<>> /\ motnums' = <<>> /\ matches' = <<>>
  /\ i' = 0 /\ j' = 0 /\ tries' = 0 /\ wrote' = 0
  /\ err' = None
  /\ UNCHANGED <<today, index, pages, store, prev, arg, ret>>

\* get(): an attempt fails; the last one raises RuntimeError, which leaves
\* main, through the transaction block when one is open
FetchFails ==
  /\ pc \in {"fetch_index", "fetch_comp"}
  /\ tries < TRIES
  /\ IF tries + 1 < TRIES
     THEN /\ tries' = tries + 1
          /\ UNCHANGED <<pc, err, store, tx>>
     ELSE /\ tries' = 0
          /\ pc' = "failed"
          /\ err' = "GetFailed"
          /\ store' = transaction_exit(store, tx, TRUE)
          /\ tx' = store'
  /\ UNCHANGED <<today, index, pages, comps, motnums, i, matches, j, pre, wrote,
                 prev, arg, ret>>

\* lines 18-42: the index is fetched and parsed, and the transaction opened
FetchIndex ==
  /\ pc = "fetch_index"
  /\ LET cs == parse_competitions_from_index(index, SEASON)
         ms == motnums_of(cs, index)
     IN /\ comps' = cs
        /\ motnums' = ms
        /\ IF no_motnums(ms)
           THEN pc' = "failed" /\ err' = "NoMotnumer" /\ i' = 0
           ELSE /\ pc' = IF ms = <<>> THEN "commit" ELSE "upsert_comps"
                /\ err' = err
                /\ i' = 1
  /\ tries' = 0
  /\ UNCHANGED <<today, index, pages, store, tx, matches, j, pre, wrote, prev,
                 arg, ret>>

\* lines 44-61: one turn of the first loop
UpsertCompetition ==
  /\ pc = "upsert_comps"
  /\ tx' = [tx EXCEPT !.competitions =
              upsert_competition(@, comp_for(comps, motnums[i]), today)]
  /\ wrote' = wrote + 1
  /\ IF i < Len(motnums)
     THEN i' = i + 1 /\ pc' = pc
     ELSE i' = 1 /\ pc' = "fetch_comp"
  /\ UNCHANGED <<today, index, pages, store, comps, motnums, matches, j, tries,
                 err, pre, prev, arg, ret>>

\* lines 65-68: the page of competition i is fetched and parsed
FetchCompetition ==
  /\ pc = "fetch_comp"
  /\ LET mot == motnums[i]
         ms == parse_matches_from_comp_page(pages[mot], mot, competition_url(mot), today)
     IN /\ matches' = ms
        /\ IF ms # <<>> THEN pc' = "match" /\ i' = i /\ j' = 1
           ELSE IF i < Len(motnums) THEN pc' = pc /\ i' = i + 1 /\ j' = 0
           ELSE pc' = "commit" /\ i' = i /\ j' = 0
  /\ tries' = 0
  /\ UNCHANGED <<today, index, pages, store, tx, comps, motnums, err, pre, wrote,
                 prev, arg, ret>>

\* lines 69-79: one turn of the loop over the matches
IngestMatch ==
  /\ pc = "match"
  /\ LET r == ingest_match(tx, matches[j], today)
     IN /\ wrote' = wrote + r.n
        /\ IF r.raised # None
           THEN /\ pc' = "failed"
                /\ err' = r.raised
                /\ store' = transaction_exit(store, r.db, TRUE)
                /\ tx' = store'
                /\ UNCHANGED <<i, j>>
           ELSE /\ tx' = r.db
                /\ UNCHANGED <<store, err>>
                /\ IF j < Len(matches) THEN pc' = pc /\ i' = i /\ j' = j + 1
                   ELSE IF i < Len(motnums)
                   THEN pc' = "fetch_comp" /\ i' = i + 1 /\ j' = 0
                   ELSE pc' = "commit" /\ i' = i /\ j' = 0
  /\ UNCHANGED <<today, index, pages, comps, motnums, matches, tries, pre, prev,
                 arg, ret>>

\* the transaction block and the connection block are left normally
Commit ==
  /\ pc = "commit"
  /\ store' = transaction_exit(store, tx, FALSE)
  /\ tx' = store'
  /\ pc' = "done"
  /\ prev' = IF prev = "none" THEN "once" ELSE "twice"
  /\ UNCHANGED <<today, index, pages, comps, motnums, i, matches, j, tries, err,
                 pre, wrote, arg, ret>>

Next ==
  \/ EditSite
  \/ Tick
  \/ StartRun
  \/ FetchFails
  \/ FetchIndex
  \/ UpsertCompetition
  \/ FetchCompetition
  \/ IngestMatch
  \/ Commit

Spec == Init /\ [][Next]_vars

(***************************************************************************)
(* Properties of the parser, the persistence functions and the run.        *)
(***************************************************************************)
Running == pc \in {"fetch_index", "upsert_comps", "fetch_comp", "match", "commit"}

\* C1: a run that fails leaves the store as it was when the run started,
\* and no write of a run is visible in the store before the run commits.
C1_FailedRunLeavesStore ==
  /\ pc = "failed" => store = pre
  /\ Running => store = pre

\* a run failed after it had executed statements in its transaction
C1_Witness == pc = "failed" /\ wrote > 0 /\ err = "GetFailed"

\* the tables without their timestamp columns
Content(db) ==
  [competitions |->
     {[motnumer |-> r.motnumer, season |-> r.season, gender |-> r.gender,
       tier |-> r.tier, name_raw |-> r.name_raw, group_label |-> r.group_label,
       source_url |-> r.source_url] : r \in db.competitions},
   matches |->
     {[match_id |-> r.match_id, motnumer |-> r.motnumer,
       kickoff_utc |-> r.kickoff_utc, home_team_raw |-> r.home_team_raw,
       away_team_raw |-> r.away_team_raw, home_team_id |-> r.home_team_id,
       away_team_id |-> r.away_team_id, venue_raw |-> r.venue_raw,
       status |-> r.status, ft_home |-> r.ft_home, ft_away |-> r.ft_away,
       source_url |-> r.source_url] : r \in db.matches},
   teams |-> db.teams,
   aliases |-> db.aliases]

ParsedIndex ==
  \/ pc \in {"upsert_comps", "fetch_comp", "match", "commit", "done"}
  \/ pc = "failed" /\ (err = "NoMotnumer" \/ i > 0)

\* C3 as stated: whenever parse_competitions_from_index returns nothing, the
\* run raises and writes nothing.
C3_EmptyIndexResultIsFatal ==
  (ParsedIndex /\ parse_competitions_from_index(index, SEASON) = <<>>)
    => (pc = "failed" /\ err = "NoMotnumer" /\ wrote = 0 /\ store = pre)

\* C3 amended: the run raises, with nothing written, exactly when the index
\* page yields no competition key at all: the extractor returns nothing and
\* extract_motnumer_links finds no motnumer link either.  When only the
\* extractor is empty the run goes on with the keys of the links.
C3_NoKeyAtAllIsFatal ==
  ParsedIndex =>
    /\ (parse_competitions_from_index(index, SEASON) = <<>>
          /\ extract_motnumer_links(index) = <<>>)
         => (pc = "failed" /\ err = "NoMotnumer" /\ wrote = 0 /\ store = pre)
    /\ (parse_competitions_from_index(index, SEASON) = <<>>
          /\ extract_motnumer_links(index) # <<>>)
         => /\ err # "NoMotnumer"
            /\ motnums = extract_motnumer_links(index)
            /\ pc = "done" =>
                 \A k \in 1..Len(motnums) : \E r \in store.competitions :
                   r.motnumer = motnums[k] /\ r.name_raw = <<"Unknown", "competition">>
    /\ parse_competitions_from_index(index, SEASON) # <<>> => err # "NoMotnumer"

\* the run raised on an index page without any key
C3_Witness == pc = "failed" /\ err = "NoMotnumer" /\ index # <<>>

\* C4 as stated, over the calls made so far: every call on a name returns a
\* team id, the same spelling always the same id, two different spellings
\* (be it by case or by whitespace only) different ids and different rows.
C4_TeamResolution ==
  LET named == {k \in 1..Len(arg) : Strip(arg[k]) # <<>>}
  IN /\ \A k \in named : ret[k].raised = None /\ ret[k].team_id # <<>>
     /\ \A k, l \in named : arg[k] = arg[l] => ret[k].team_id = ret[l].team_id
     /\ \A k, l \in named : arg[k] # arg[l] => ret[k].team_id # ret[l].team_id
     /\ Cardinality(tx.teams) = Cardinality({arg[k] : k \in named})

\* the records of the rows of the page under study, before the dedup
Candidates == row_matches(arg.html, arg.motnumer, competition_url(arg.motnumer), today)

\* C5: the list returned holds one record per match_id, each the record of
\* the last row that produced that match_id, and nothing else.
C5_DedupKeepsLast ==
  pc = "returned" =>
    LET c == Candidates
    IN /\ \A a, b \in 1..Len(ret) : ret[a].match_id = ret[b].match_id => a = b
       /\ \A a \in 1..Len(ret) : \E k \in 1..Len(c) : c[k] = ret[a]
       /\ \A k \in 1..Len(c) : \E a \in 1..Len(ret) :
            /\ ret[a].match_id = c[k].match_id
            /\ \E l \in k..Len(c) :
                 /\ ret[a] = c[l]
                 /\ \A n \in (l + 1)..Len(c) : c[n].match_id # c[l].match_id

\* two rows of the page gave different records under one match_id
C5_Witness ==
  /\ pc = "returned"
  /\ \E k, l \in 1..Len(Candidates) :
       /\ k < l
       /\ Candidates[k].match_id = Candidates[l].match_id
       /\ Candidates[k] # Candidates[l]

\* the two argument lists of the calls, normalised as the hash input is
Normal(x) ==
  [motnumer |-> x.motnumer, kickoff_iso |-> x.kickoff_iso,
   home |-> Lower(Strip(x.home)), away |-> Lower(Strip(x.away))]

\* C6 as stated: identical arguments give the same identifier, and arguments
\* that differ in exactly one field give different identifiers.
C6_OneFieldChangesId ==
  (pc = "returned" /\ Len(ret) = 2) =>
    /\ arg[1] = arg[2] => ret[1] = ret[2]
    /\ Cardinality(Differing(arg[1], arg[2])) = 1 => ret[1] # ret[2]

\* C6 amended: identical arguments give the same identifier; arguments that
\* differ in exactly one field give different identifiers if the field is
\* motnumer or kickoff_iso, or is home or away and still differs once trimmed
\* and lower-cased, and the same identifier otherwise.
C6_OneNormalFieldChangesId ==
  (pc = "returned" /\ Len(ret) = 2) =>
    /\ arg[1] = arg[2] => ret[1] = ret[2]
    /\ Cardinality(Differing(arg[1], arg[2])) = 1 =>
         (ret[1] # ret[2] <=> Normal(arg[1]) # Normal(arg[2]))

\* two calls differed in the away name alone, beyond case and blanks
C6_Witness ==
  /\ pc = "returned" /\ Len(ret) = 2
  /\ Differing(arg[1], arg[2]) = {"away"}
  /\ Normal(arg[1]) # Normal(arg[2])
  /\ ret[1] # ret[2]

\* C7 as stated: a name with "bikar" has no tier, even with "N. deild" in it;
\* otherwise a name with "N. deild" has tier N + 1; the gender follows the
\* keywords alone.
C7_TierRules ==
  pc = "returned" =>
    LET n == Lower(arg)
        cup == \E k \in 1..Len(n) : n[k] = "bikar"
        divs == {k \in 1..Len(n) :
                   k < Len(n) /\ n[k] \in NumDotToks /\ n[k + 1] = "deild"}
        first == CHOOSE k \in divs : \A h \in divs : k <= h
    IN /\ cup => ret[2] = <<>>
       /\ (~cup /\ divs # {}) => ret[2] = <<NumDotValue(n[first]) + 1>>
       /\ ret[1] = IF \E k \in 1..Len(n) : n[k] = "karla" THEN "M"
                   ELSE IF \E k \in 1..Len(n) : n[k] = "kvenna" THEN "W"
                   ELSE None

\* C8 as stated: the record of a qualifying row that has a link with a
\* native match identifier carries that identifier, and the record of a row
\* without such a link carries the hash.
C8_NativeIdPreferred ==
  pc = "returned" =>
    \A k \in 1..Len(arg.html) :
      LET tr == arg.html[k]
          rec == row_match(tr, arg.motnumer, competition_url(arg.motnumer), today)
          native == any_native_link(tr.links)
      IN rec # <<>> =>
           /\ native # <<>> =>
                rec[1].match_id \in {MATCH_RE(tr.links[n]) : n \in 1..Len(tr.links)} \ {None}
           /\ \E a \in 1..Len(ret) : ret[a].match_id = rec[1].match_id

\* C9 as stated: no record has a date/time-shaped home or away name, and a
\* row with fewer than two distinct candidates (cells that are not empty,
\* not a number and not date/time-shaped, their score removed) gives none.
C9_TeamCandidates ==
  pc = "returned" =>
    /\ \A a \in 1..Len(ret) :
         /\ ~looks_like_datetime(ret[a].home_team_raw)
         /\ ~looks_like_datetime(ret[a].away_team_raw)
    /\ \A k \in 1..Len(arg.html) :
         LET texts == arg.html[k].cells
             cands == {strip_score(texts[c]) : c \in {d \in 1..Len(texts) : team_cell(texts[d])}}
         IN Cardinality(cands) < 2 =>
              row_match(arg.html[k], arg.motnumer, competition_url(arg.motnumer), today) = <<>>

\* the matches the run extracted from the pages of its competitions
Extracted ==
  UNION {{parse_matches_from_comp_page(pages[motnums[k]], motnums[k],
                                       competition_url(motnums[k]), today)[a]
            : a \in 1..Len(parse_matches_from_comp_page(pages[motnums[k]], motnums[k],
                                       competition_url(motnums[k]), today))}
           : k \in 1..Len(motnums)}

\* C10 as stated: a run fails only when a fetch failed or the index gave no
\* competition, and a run that committed left a match row for every match
\* it extracted, with the ids of the teams of its two names.
C10_WellFormedRunCommits ==
  /\ pc = "failed" => err \in {"GetFailed", "NoMotnumer"}
  /\ pc = "done" =>
       \A m \in Extracted : \E r \in store.matches :
         /\ r.match_id = m.match_id
         /\ \E t \in store.teams :
              t.name_canonical = Strip(m.home_team_raw) /\ t.team_id = r.home_team_id
         /\ \E t \in store.teams :
              t.name_canonical = Strip(m.away_team_raw) /\ t.team_id = r.away_team_id
====
